---- MODULE Spec2Model ----
(***************************************************************************)
(* The lookup core of spyll.hunspell (algo/lookup.py): Analyzer.lookup and *)
(* everything it calls.  Strings are sequences of one-character strings,   *)
(* flags are one-character strings, an absent (None) flag is the empty     *)
(* string, which no flag set contains.  An affix is referred to by its     *)
(* position in aff.SFX / aff.PFX (0 = None).                               *)
(***************************************************************************)
EXTENDS Naturals, Sequences, FiniteSets

VARIABLES fx, aff, dic, pc, word, capitalization, allow_nosuggest, captype,
          compoundpos, result, forms, candidates, compounds

vars == <<fx, aff, dic, pc, word, capitalization, allow_nosuggest, captype,
          compoundpos, result, forms, candidates, compounds>>

\* Longest input word drawn over a fixture's alphabet.
MaxWordLen == 4

\* ------------------------------------------------------------------------
\* Python built-ins on strings and lists
\* ------------------------------------------------------------------------

None == ""

Range(s) == {s[i] : i \in 1..Len(s)}

Max(a, b) == IF a > b THEN a ELSE b

Min(a, b) == IF a < b THEN a ELSE b

RECURSIVE Flatten(_)
Flatten(ss) == IF ss = <<>> THEN <<>> ELSE Head(ss) \o Flatten(Tail(ss))

\* s[a:b] with 0-based Python bounds already clipped to 0..len
Slice(s, a, b) == IF b <= a THEN <<>> ELSE SubSeq(s, a + 1, b)

StartsWith(s, p) == Len(p) <= Len(s) /\ SubSeq(s, 1, Len(p)) = p

EndsWith(s, p) == Len(p) <= Len(s) /\ SubSeq(s, Len(s) - Len(p) + 1, Len(s)) = p

\* s[-n:]
LastN(s, n) == Slice(s, Max(0, Len(s) - n), Len(s))

\* s[:n]
FirstN(s, n) == Slice(s, 0, Min(n, Len(s)))

\* str.replace(i, o) for a non-empty i: every non-overlapping occurrence, left to right
RECURSIVE StrReplace(_, _, _)
StrReplace(s, i, o) ==
    IF s = <<>> THEN <<>>
    ELSE IF StartsWith(s, i) THEN o \o StrReplace(Slice(s, Len(i), Len(s)), i, o)
    ELSE <<Head(s)>> \o StrReplace(Tail(s), i, o)

LowerLetters == <<"a", "b", "c", "f", "o", "r", "s", "u", "x", "y", "z">>

UpperLetters == <<"A", "B", "C", "F", "O", "R", "S", "U", "X", "Y", "Z">>

CharLower(c) ==
    IF \E i \in 1..Len(UpperLetters) : UpperLetters[i] = c
    THEN LowerLetters[CHOOSE i \in 1..Len(UpperLetters) : UpperLetters[i] = c]
    ELSE c

CharUpper(c) ==
    IF \E i \in 1..Len(LowerLetters) : LowerLetters[i] = c
    THEN UpperLetters[CHOOSE i \in 1..Len(LowerLetters) : LowerLetters[i] = c]
    ELSE c

StrLower(s) == [i \in 1..Len(s) |-> CharLower(s[i])]

StrUpper(s) == [i \in 1..Len(s) |-> CharUpper(s[i])]

\* str.capitalize()
StrCapitalize(s) == [i \in 1..Len(s) |-> IF i = 1 THEN CharUpper(s[i]) ELSE CharLower(s[i])]

\* ------------------------------------------------------------------------
\* capitalization helper module (cap.guess, cap.variants)
\* ------------------------------------------------------------------------

Cap == [NO |-> "NO", INIT |-> "INIT", ALL |-> "ALL", HUH |-> "HUH", HUHINIT |-> "HUHINIT"]

cap_guess(w) ==
    IF StrLower(w) = w THEN Cap.NO
    ELSE IF FirstN(StrLower(w), 1) # FirstN(w, 1) /\ Slice(StrLower(w), 1, Len(w)) = Slice(w, 1, Len(w))
         THEN Cap.INIT
    ELSE IF StrUpper(w) = w THEN Cap.ALL
    ELSE IF FirstN(StrLower(w), 1) # FirstN(w, 1) THEN Cap.HUHINIT
    ELSE Cap.HUH

\* the case forms to try: the word as written first, then its lowered forms
cap_variants(w) ==
    LET ct == cap_guess(w)
    IN  CASE ct = Cap.NO      -> <<w>>
          [] ct = Cap.INIT    -> <<w, StrLower(w)>>
          [] ct = Cap.HUHINIT -> <<w, <<CharLower(w[1])>> \o Tail(w)>>
          [] ct = Cap.HUH     -> <<w>>
          [] OTHER            -> <<w, StrLower(w), StrCapitalize(w)>>

\* ------------------------------------------------------------------------
\* data.aff / data.dic
\* ------------------------------------------------------------------------

\* One token of an affix condition: '.' or a bracket expression / literal.
AnyChar == [any |-> TRUE, chars |-> {}]

Class(cs) == [any |-> FALSE, chars |-> cs]

Affix(flag, strip, add, condition, crossproduct, flags) ==
    [flag |-> flag, strip |-> strip, add |-> add, condition |-> condition,
     crossproduct |-> crossproduct, flags |-> flags]

DicWord(stem, flags) == [stem |-> stem, flags |-> flags]

\* An Aff that declares nothing (COMPOUNDMIN defaults to 3).
DefaultAff ==
    [SFX |-> <<>>, PFX |-> <<>>,
     FORBIDDENWORD |-> None, NOSUGGEST |-> None, KEEPCASE |-> None,
     NEEDAFFIX |-> None, ONLYINCOMPOUND |-> None,
     COMPOUNDFLAG |-> None, COMPOUNDBEGIN |-> None, COMPOUNDMIDDLE |-> None,
     COMPOUNDLAST |-> None, COMPOUNDPERMITFLAG |-> None, COMPOUNDFORBIDFLAG |-> None,
     COMPOUNDMIN |-> 3, COMPOUNDWORDSMAX |-> 0,
     CHECKCOMPOUNDCASE |-> FALSE, CHECKCOMPOUNDTRIPLE |-> FALSE,
     CHECKCOMPOUNDREP |-> FALSE, CHECKCOMPOUNDPATTERN |-> <<>>,
     ICONV |-> <<>>, REP |-> <<>>, BREAK |-> <<>>, COMPOUNDRULE |-> <<>>]

\* dic.homonyms(stem, ignorecase): the entries of that stem, in dictionary order
homonyms(d, stem, ignorecase) ==
    SelectSeq(d, LAMBDA w : IF ignorecase THEN StrLower(w.stem) = StrLower(stem)
                                          ELSE w.stem = stem)

\* ------------------------------------------------------------------------
\* WordForm, CompoundPos
\* ------------------------------------------------------------------------

CompoundPos == [BEGIN |-> "BEGIN", MIDDLE |-> "MIDDLE", END |-> "END"]

WordForm(text, stem) ==
    [text |-> text, stem |-> stem, prefix |-> 0, suffix |-> 0, prefix2 |-> 0, suffix2 |-> 0]

is_base(form) == form.suffix = 0 /\ form.prefix = 0

affix_flags(a, form) ==
    LET flags == IF form.prefix # 0 THEN a.PFX[form.prefix].flags ELSE {}
    IN  IF form.suffix # 0 THEN flags \cup a.SFX[form.suffix].flags ELSE flags

\* the flag sets of [prefix2, prefix, suffix, suffix2] that are present
all_affixes(a, form) ==
    (IF form.prefix2 # 0 THEN <<a.PFX[form.prefix2].flags>> ELSE <<>>)
    \o (IF form.prefix # 0 THEN <<a.PFX[form.prefix].flags>> ELSE <<>>)
    \o (IF form.suffix # 0 THEN <<a.SFX[form.suffix].flags>> ELSE <<>>)
    \o (IF form.suffix2 # 0 THEN <<a.SFX[form.suffix2].flags>> ELSE <<>>)

\* ------------------------------------------------------------------------
\* Analyzer.compile: the affix index and the condition regexps
\* ------------------------------------------------------------------------

Reverse(s) == [i \in 1..Len(s) |-> s[Len(s) - i + 1]]

\* itertools.groupby + trie[key] = [...]: a later run of the same key replaces
\* an earlier one, so a key holds the last run of consecutive entries with it.
LastRun(entries, add) ==
    LET hits == {i \in 1..Len(entries) : entries[i].add = add}
    IN  IF hits = {} THEN <<>>
        ELSE LET last  == CHOOSE i \in hits : \A j \in hits : j <= i
                 first == CHOOSE i \in 1..last :
                              /\ \A j \in i..last : j \in hits
                              /\ (i = 1 \/ (i - 1) \notin hits)
             IN  [k \in 1..(last - first + 1) |-> first + k - 1]

\* self.suffixes: reversed add -> the affixes (by position) stored under it
suffixes(a) ==
    [key \in {Reverse(a.SFX[i].add) : i \in 1..Len(a.SFX)} |-> LastRun(a.SFX, Reverse(key))]

\* self.prefixes: add -> the affixes stored under it
prefixes(a) ==
    [key \in {a.PFX[i].add : i \in 1..Len(a.PFX)} |-> LastRun(a.PFX, key)]

\* Affixes.lookup: the values of every key that is a prefix of the query, shortest first
Affixes_lookup(trie, prefix) ==
    Flatten([k \in 1..(Len(prefix) + 1) |->
                IF FirstN(prefix, k - 1) \in DOMAIN trie THEN trie[FirstN(prefix, k - 1)] ELSE <<>>])

TokenMatches(tok, c) == tok.any \/ c \in tok.chars

\* (?<=cond) add $
suffix_regexp(suffix) ==
    LET cond_parts == IF suffix.strip # <<>>
                      THEN Slice(suffix.condition, 0, Max(0, Len(suffix.condition) - Len(suffix.strip)))
                      ELSE suffix.condition
    IN  [cond |-> IF cond_parts # <<>> /\ cond_parts # <<AnyChar>> THEN cond_parts ELSE <<>>,
         add  |-> suffix.add]

\* ^ add (?=cond)
prefix_regexp(prefix) ==
    LET cond_parts == Slice(prefix.condition, Min(Len(prefix.strip), Len(prefix.condition)),
                            Len(prefix.condition))
    IN  [cond |-> IF cond_parts # <<>> /\ cond_parts # <<AnyChar>> THEN cond_parts ELSE <<>>,
         add  |-> prefix.add]

\* regexp.search(word) for a suffix regexp
suffix_search(re, w) ==
    /\ EndsWith(w, re.add)
    /\ LET p == Len(w) - Len(re.add)
       IN  /\ Len(re.cond) <= p
           /\ \A k \in 1..Len(re.cond) : TokenMatches(re.cond[k], w[p - Len(re.cond) + k])

\* regexp.sub(strip, word) for a suffix regexp that matches
suffix_sub(re, strip, w) == Slice(w, 0, Len(w) - Len(re.add)) \o strip

prefix_search(re, w) ==
    /\ StartsWith(w, re.add)
    /\ Len(re.add) + Len(re.cond) <= Len(w)
    /\ \A k \in 1..Len(re.cond) : TokenMatches(re.cond[k], w[Len(re.add) + k])

prefix_sub(re, strip, w) == strip \o Slice(w, Len(re.add), Len(w))

\* ------------------------------------------------------------------------
\* Affix stripping
\* ------------------------------------------------------------------------

good_suffix(suffix, required_flags, forbidden_flags, crossproduct) ==
    /\ (~crossproduct \/ suffix.crossproduct)
    /\ \A f \in required_flags : f \in suffix.flags
    /\ \A f \in forbidden_flags : f \notin suffix.flags

good_prefix(prefix, required_flags, forbidden_flags) ==
    /\ \A f \in required_flags : f \in prefix.flags
    /\ \A f \in forbidden_flags : f \notin prefix.flags

RECURSIVE desuffix(_, _, _, _, _, _)
desuffix(a, w, required_flags, forbidden_flags, nested, crossproduct) ==
    LET possible_suffixes ==
            SelectSeq(Affixes_lookup(suffixes(a), Reverse(w)),
                      LAMBDA i : /\ good_suffix(a.SFX[i], required_flags, forbidden_flags, crossproduct)
                                 /\ suffix_search(suffix_regexp(a.SFX[i]), w))
        Strip(i) ==
            LET suffix == a.SFX[i]
                stem   == suffix_sub(suffix_regexp(suffix), suffix.strip, w)
                deeper == IF nested THEN <<>>
                          ELSE desuffix(a, stem, {suffix.flag} \cup required_flags,
                                        forbidden_flags, TRUE, crossproduct)
            IN  <<[WordForm(w, stem) EXCEPT !.suffix = i]>>
                \o [k \in 1..Len(deeper) |-> [deeper[k] EXCEPT !.suffix2 = i, !.text = w]]
    IN  Flatten([k \in 1..Len(possible_suffixes) |-> Strip(possible_suffixes[k])])

RECURSIVE deprefix(_, _, _, _, _)
deprefix(a, w, required_flags, forbidden_flags, nested) ==
    LET possible_prefixes ==
            SelectSeq(Affixes_lookup(prefixes(a), w),
                      LAMBDA i : /\ good_prefix(a.PFX[i], required_flags, forbidden_flags)
                                 /\ prefix_search(prefix_regexp(a.PFX[i]), w))
        Strip(i) ==
            LET prefix == a.PFX[i]
                stem   == prefix_sub(prefix_regexp(prefix), prefix.strip, w)
                deeper == IF nested THEN <<>>
                          ELSE deprefix(a, stem, {prefix.flag} \cup required_flags,
                                        forbidden_flags, TRUE)
            IN  <<[WordForm(w, stem) EXCEPT !.prefix = i]>>
                \o [k \in 1..Len(deeper) |-> [deeper[k] EXCEPT !.prefix2 = i, !.text = w]]
    IN  Flatten([k \in 1..Len(possible_prefixes) |-> Strip(possible_prefixes[k])])

try_affix_forms(a, w, cpos) ==
    LET suffix_allowed == IF cpos # None
                          THEN cpos = CompoundPos.END \/ a.COMPOUNDPERMITFLAG # None
                          ELSE TRUE
        prefix_allowed == IF cpos # None
                          THEN cpos = CompoundPos.BEGIN \/ a.COMPOUNDPERMITFLAG # None
                          ELSE TRUE
        prefix_required_flags == IF cpos # None /\ cpos # CompoundPos.BEGIN
                                 THEN {a.COMPOUNDPERMITFLAG} ELSE {}
        suffix_required_flags == IF cpos # None /\ cpos # CompoundPos.END
                                 THEN {a.COMPOUNDPERMITFLAG} ELSE {}
        forbidden_flags == IF cpos # None /\ a.COMPOUNDFORBIDFLAG # None
                           THEN {a.COMPOUNDFORBIDFLAG} ELSE {}
        deprefixed == deprefix(a, w, prefix_required_flags, forbidden_flags, FALSE)
        WithCross(form) ==
            LET crossed == IF suffix_allowed /\ a.PFX[form.prefix].crossproduct
                           THEN desuffix(a, form.stem, suffix_required_flags, forbidden_flags,
                                         FALSE, TRUE)
                           ELSE <<>>
            IN  <<form>> \o [k \in 1..Len(crossed) |-> [crossed[k] EXCEPT !.prefix = form.prefix]]
    IN  <<WordForm(w, w)>>
        \o (IF suffix_allowed
            THEN desuffix(a, w, suffix_required_flags, forbidden_flags, FALSE, FALSE)
            ELSE <<>>)
        \o (IF prefix_allowed
            THEN Flatten([k \in 1..Len(deprefixed) |-> WithCross(deprefixed[k])])
            ELSE <<>>)

\* ------------------------------------------------------------------------
\* Flag compatibility and affix-form lookup
\* ------------------------------------------------------------------------

\* the KEEPCASE test without the comparison of the two capitalizations
keepcase_mismatch_any(a, dictionary_word, ct) ==
    /\ a.KEEPCASE # None
    /\ a.KEEPCASE \in dictionary_word.flags

\* the KEEPCASE test of have_compatible_flags
keepcase_mismatch(a, dictionary_word, ct) ==
    /\ a.KEEPCASE # None
    /\ a.KEEPCASE \in dictionary_word.flags
    /\ ct # cap_guess(dictionary_word.stem)

\* the NEEDAFFIX test of have_compatible_flags
needaffix_mismatch(a, dictionary_word, form) ==
    /\ a.NEEDAFFIX # None
    /\ LET affixes == all_affixes(a, form)
       IN  \/ (a.NEEDAFFIX \in dictionary_word.flags /\ affixes = <<>>)
           \/ (affixes # <<>> /\ \A k \in 1..Len(affixes) : a.NEEDAFFIX \in affixes[k])

have_compatible_flags(a, dictionary_word, form, cpos, ct, nosuggest) ==
    LET all_flags == dictionary_word.flags \cup affix_flags(a, form)
    IN  IF ~nosuggest /\ a.NOSUGGEST \in dictionary_word.flags THEN FALSE
        ELSE IF keepcase_mismatch(a, dictionary_word, ct) THEN FALSE
        ELSE IF needaffix_mismatch(a, dictionary_word, form) THEN FALSE
        ELSE IF form.prefix # 0 /\ a.PFX[form.prefix].flag \notin all_flags THEN FALSE
        ELSE IF form.suffix # 0 /\ a.SFX[form.suffix].flag \notin all_flags THEN FALSE
        ELSE IF cpos = None THEN a.ONLYINCOMPOUND \notin all_flags
        ELSE IF a.COMPOUNDFLAG \in all_flags THEN TRUE
        ELSE IF cpos = CompoundPos.BEGIN THEN a.COMPOUNDBEGIN \in all_flags
        ELSE IF cpos = CompoundPos.END THEN a.COMPOUNDLAST \in all_flags
        ELSE IF cpos = CompoundPos.MIDDLE THEN a.COMPOUNDMIDDLE \in all_flags
        ELSE FALSE

\* word_forms: the test that ends the generator at a form
forbidden_stem(a, d, form, cpos) ==
    /\ (cpos # None \/ ~is_base(form))
    /\ \E k \in 1..Len(homonyms(d, form.stem, FALSE)) :
           a.FORBIDDENWORD \in homonyms(d, form.stem, FALSE)[k].flags

\* word_forms: what one form yields, once per compatible homonym
form_yields(a, d, form, ct, cpos, nosuggest) ==
    LET exact == SelectSeq(homonyms(d, form.stem, FALSE),
                           LAMBDA w : have_compatible_flags(a, w, form, cpos, ct, nosuggest))
        loose == SelectSeq(homonyms(d, form.stem, TRUE),
                           LAMBDA w : /\ ~(ct # Cap.ALL /\ cap_guess(w.stem) # Cap.NO)
                                      /\ have_compatible_flags(a, w, form, cpos, ct, nosuggest))
    IN  IF exact # <<>> THEN [k \in 1..Len(exact) |-> form]
        ELSE [k \in 1..Len(loose) |-> form]

\* the loop of word_forms over the candidate forms, skipping instead of returning
RECURSIVE word_forms_skip(_, _, _, _, _, _)
word_forms_skip(a, d, cands, ct, cpos, nosuggest) ==
    IF cands = <<>> THEN <<>>
    ELSE IF forbidden_stem(a, d, Head(cands), cpos)
         THEN word_forms_skip(a, d, Tail(cands), ct, cpos, nosuggest)
    ELSE form_yields(a, d, Head(cands), ct, cpos, nosuggest)
         \o word_forms_skip(a, d, Tail(cands), ct, cpos, nosuggest)

\* the loop of word_forms over the candidate forms
RECURSIVE word_forms_loop(_, _, _, _, _, _)
word_forms_loop(a, d, cands, ct, cpos, nosuggest) ==
    IF cands = <<>> THEN <<>>
    ELSE IF forbidden_stem(a, d, Head(cands), cpos) THEN <<>>
    ELSE form_yields(a, d, Head(cands), ct, cpos, nosuggest)
         \o word_forms_loop(a, d, Tail(cands), ct, cpos, nosuggest)

word_forms(a, d, w, ct, cpos, nosuggest) ==
    word_forms_loop(a, d, try_affix_forms(a, w, cpos), ct, cpos, nosuggest)

\* ------------------------------------------------------------------------
\* CompoundRule, CompoundPattern
\* ------------------------------------------------------------------------

Quantifiers == {"*", "?"}

\* re.findall('[^*?][*?]?', text)
RECURSIVE rule_parts(_)
rule_parts(text) ==
    IF text = <<>> THEN <<>>
    ELSE IF Head(text) \in Quantifiers THEN rule_parts(Tail(text))
    ELSE IF Len(text) >= 2 /\ text[2] \in Quantifiers
         THEN <<[c |-> text[1], q |-> text[2]]>> \o rule_parts(Slice(text, 2, Len(text)))
    ELSE <<[c |-> text[1], q |-> ""]>> \o rule_parts(Tail(text))

rule_flags(text) == Range(text) \ Quantifiers

\* one token of a rule against a whole string
part_fullmatch(part, s) ==
    CASE part.q = "*" -> \A i \in 1..Len(s) : s[i] = part.c
      [] part.q = "?" -> s = <<>> \/ s = <<part.c>>
      [] OTHER        -> s = <<part.c>>

\* self.re.fullmatch: the tokens in sequence
RECURSIVE re_fullmatch(_, _)
re_fullmatch(parts, s) ==
    IF parts = <<>> THEN s = <<>>
    ELSE \E k \in 0..Len(s) : /\ part_fullmatch(Head(parts), FirstN(s, k))
                              /\ re_fullmatch(Tail(parts), Slice(s, k, Len(s)))

\* self.partial_re.fullmatch: p1(p2(p3(...)?)?)?
RECURSIVE partial_re_fullmatch(_, _)
partial_re_fullmatch(parts, s) ==
    \E k \in 0..Len(s) :
        /\ part_fullmatch(Head(parts), FirstN(s, k))
        /\ \/ k = Len(s)
           \/ (Len(parts) > 1 /\ partial_re_fullmatch(Tail(parts), Slice(s, k, Len(s))))

\* itertools.product
RECURSIVE Product(_)
Product(sets) ==
    IF sets = <<>> THEN {<<>>}
    ELSE {<<x>> \o r : x \in Head(sets), r \in Product(Tail(sets))}

CompoundRule_fullmatch(text, flag_sets) ==
    LET relevant_flags == [i \in 1..Len(flag_sets) |-> rule_flags(text) \cap flag_sets[i]]
    IN  \E fc \in Product(relevant_flags) : re_fullmatch(rule_parts(text), fc)

\* partial_match with the rule's parts nested in the order they are written
CompoundRule_partial_match_unreversed(text, flag_sets) ==
    LET relevant_flags == [i \in 1..Len(flag_sets) |-> rule_flags(text) \cap flag_sets[i]]
    IN  \E fc \in Product(relevant_flags) : partial_re_fullmatch(Reverse(rule_parts(text)), fc)

CompoundRule_partial_match(text, flag_sets) ==
    LET relevant_flags == [i \in 1..Len(flag_sets) |-> rule_flags(text) \cap flag_sets[i]]
    IN  \E fc \in Product(relevant_flags) : partial_re_fullmatch(rule_parts(text), fc)

\* the stem side of 'stem/flag'
RECURSIVE pattern_stem(_)
pattern_stem(s) ==
    IF s = <<>> \/ Head(s) = "/" THEN <<>> ELSE <<Head(s)>> \o pattern_stem(Tail(s))

CompoundPattern_match(pattern, left, right) ==
    /\ EndsWith(left.stem, pattern_stem(pattern.left))
    /\ StartsWith(right.stem, pattern_stem(pattern.right))

\* ------------------------------------------------------------------------
\* Compounding
\* ------------------------------------------------------------------------

\* the cutoff of both compound searches
compound_cutoff(a, word_rest, prev_parts) ==
    \/ Len(word_rest) < a.COMPOUNDMIN * 2
    \/ (a.COMPOUNDWORDSMAX # 0 /\ Len(prev_parts) >= a.COMPOUNDWORDSMAX)

\* range(COMPOUNDMIN, len(word_rest) - COMPOUNDMIN + 1)
split_points(a, word_rest) ==
    [k \in 1..(Len(word_rest) - 2 * a.COMPOUNDMIN + 1) |-> a.COMPOUNDMIN + k - 1]

RECURSIVE compound_parts_by_flags(_, _, _, _, _)
compound_parts_by_flags(a, d, word_rest, prev_parts, nosuggest) ==
    LET last  == IF prev_parts # <<>>
                 THEN word_forms(a, d, word_rest, Cap.NO, CompoundPos.END, nosuggest)
                 ELSE <<>>
        cpos  == IF prev_parts = <<>> THEN CompoundPos.BEGIN ELSE CompoundPos.MIDDLE
        After(form, pos) ==
            LET rests == compound_parts_by_flags(a, d, Slice(word_rest, pos, Len(word_rest)),
                                                 prev_parts \o <<form>>, nosuggest)
            IN  [j \in 1..Len(rests) |-> <<form>> \o rests[j]]
        At(pos) ==
            LET begs == word_forms(a, d, FirstN(word_rest, pos), Cap.NO, cpos, nosuggest)
            IN  Flatten([k \in 1..Len(begs) |-> After(begs[k], pos)])
        points == split_points(a, word_rest)
    IN  [k \in 1..Len(last) |-> <<last[k]>>]
        \o (IF compound_cutoff(a, word_rest, prev_parts) THEN <<>>
            ELSE Flatten([k \in 1..Len(points) |-> At(points[k])]))

RECURSIVE compound_parts_by_rules(_, _, _, _, _)
compound_parts_by_rules(a, d, word_rest, prev_parts, rules) ==
    LET flag_sets(parts) == [i \in 1..Len(parts) |-> parts[i].flags]
        ends   == SelectSeq(homonyms(d, word_rest, FALSE),
                            LAMBDA h : \E r \in 1..Len(rules) :
                                CompoundRule_fullmatch(rules[r], flag_sets(prev_parts \o <<h>>)))
        last   == IF prev_parts # <<>>
                  THEN [k \in 1..Len(ends) |-> <<WordForm(word_rest, word_rest)>>]
                  ELSE <<>>
        After(h, pos) ==
            LET beg   == FirstN(word_rest, pos)
                parts == prev_parts \o <<h>>
                rests == IF \E r \in 1..Len(rules) :
                                CompoundRule_partial_match(rules[r], flag_sets(parts))
                         THEN compound_parts_by_rules(a, d, Slice(word_rest, pos, Len(word_rest)),
                                                      parts, rules)
                         ELSE <<>>
            IN  [j \in 1..Len(rests) |-> <<WordForm(beg, beg)>> \o rests[j]]
        At(pos) ==
            LET hs == homonyms(d, FirstN(word_rest, pos), FALSE)
            IN  Flatten([k \in 1..Len(hs) |-> After(hs[k], pos)])
        points == split_points(a, word_rest)
    IN  last
        \o (IF compound_cutoff(a, word_rest, prev_parts) THEN <<>>
            ELSE Flatten([k \in 1..Len(points) |-> At(points[k])]))

\* pmt.replchars: the word with one occurrence of one REP pattern replaced
replchars(w, reptable) ==
    Flatten([r \in 1..Len(reptable) |->
        LET pat   == reptable[r][1]
            sites == SelectSeq([i \in 1..Len(w) |-> i - 1],
                               LAMBDA i : StartsWith(Slice(w, i, Len(w)), pat))
        IN  [k \in 1..Len(sites) |->
                FirstN(w, sites[k]) \o reptable[r][2]
                \o Slice(w, sites[k] + Len(pat), Len(w))]])

\* CHECKCOMPOUNDTRIPLE on one (left, right)
triple_at_seam(left, right) ==
    \/ Cardinality(Range(LastN(left, 2) \o FirstN(right, 1))) = 1
    \/ Cardinality(Range(LastN(left, 1) \o FirstN(right, 2))) = 1

\* CHECKCOMPOUNDCASE on one (left, right)
case_at_seam(left, right) ==
    LET r == right[1]
        l == left[Len(left)]
    IN  (r = CharUpper(r) \/ l = CharUpper(l)) /\ r # "-" /\ l # "-"

\* the checks of bad_compound on one (left_paradigm, right_paradigm)
bad_pair(a, d, left_paradigm, right_paradigm) ==
    LET left  == left_paradigm.text
        right == right_paradigm.text
    IN  \/ /\ a.CHECKCOMPOUNDREP
           /\ \E k \in 1..Len(replchars(left \o right, a.REP)) :
                  word_forms(a, d, replchars(left \o right, a.REP)[k], Cap.NO, None, TRUE) # <<>>
        \/ a.CHECKCOMPOUNDTRIPLE /\ triple_at_seam(left, right)
        \/ a.CHECKCOMPOUNDCASE /\ case_at_seam(left, right)
        \/ /\ a.CHECKCOMPOUNDPATTERN # <<>>
           /\ \E k \in 1..Len(a.CHECKCOMPOUNDPATTERN) :
                  CompoundPattern_match(a.CHECKCOMPOUNDPATTERN[k], left_paradigm, right_paradigm)

\* the (left, right) positions bad_compound visits: compound[:-1] x compound[1:]
compound_pairs(compound) ==
    {<<i, j>> : i \in 1..(Len(compound) - 1), j \in 2..Len(compound)}

bad_compound(a, d, compound) ==
    \/ /\ a.COMPOUNDFORBIDFLAG # None
       /\ \E i \in 1..(Len(compound) - 1) :
              \E k \in 1..Len(homonyms(d, compound[i].text, FALSE)) :
                  a.COMPOUNDFORBIDFLAG \in homonyms(d, compound[i].text, FALSE)[k].flags
    \/ \E p \in compound_pairs(compound) : bad_pair(a, d, compound[p[1]], compound[p[2]])

\* itertools.chain(by_flags, by_rules), before the bad_compound filter
compound_candidates(a, d, w, nosuggest) ==
    (IF a.COMPOUNDBEGIN # None \/ a.COMPOUNDFLAG # None
     THEN compound_parts_by_flags(a, d, w, <<>>, nosuggest) ELSE <<>>)
    \o (IF a.COMPOUNDRULE # <<>>
        THEN compound_parts_by_rules(a, d, w, <<>>, a.COMPOUNDRULE) ELSE <<>>)

compound_parts(a, d, w, nosuggest) ==
    SelectSeq(compound_candidates(a, d, w, nosuggest), LAMBDA c : ~bad_compound(a, d, c))

\* ------------------------------------------------------------------------
\* Analyzer.lookup
\* ------------------------------------------------------------------------

\* try_break gives up below this depth
MaxBreakDepth == 10

\* the forbidden shortcut reading the homonyms without regard to case
forbidden_shortcut_ignorecase(a, d, w) ==
    /\ a.FORBIDDENWORD # None
    /\ homonyms(d, w, TRUE) # <<>>
    /\ \A k \in 1..Len(homonyms(d, w, TRUE)) :
           a.FORBIDDENWORD \in homonyms(d, w, TRUE)[k].flags

\* the first test of lookup
forbidden_shortcut(a, d, w) ==
    /\ a.FORBIDDENWORD # None
    /\ homonyms(d, w, FALSE) # <<>>
    /\ \A k \in 1..Len(homonyms(d, w, FALSE)) :
           a.FORBIDDENWORD \in homonyms(d, w, FALSE)[k].flags

\* sorted(ICONV, key=len(output), reverse=True): stable, longest output first
RECURSIVE sorted_iconv(_)
sorted_iconv(pairs) ==
    IF pairs = <<>> THEN <<>>
    ELSE LET longest == CHOOSE i \in 1..Len(pairs) :
                            /\ \A j \in 1..Len(pairs) : Len(pairs[j][2]) <= Len(pairs[i][2])
                            /\ \A j \in 1..(i - 1) : Len(pairs[j][2]) < Len(pairs[i][2])
         IN  <<pairs[longest]>>
             \o sorted_iconv(SubSeq(pairs, 1, longest - 1) \o SubSeq(pairs, longest + 1, Len(pairs)))

RECURSIVE replace_all(_, _)
replace_all(w, pairs) ==
    IF pairs = <<>> THEN w
    ELSE replace_all(StrReplace(w, Head(pairs)[1], Head(pairs)[2]), Tail(pairs))

apply_iconv(a, w) == replace_all(w, sorted_iconv(a.ICONV))

\* analyze with capitalization=True: the parses of every variant, word forms first
analyze(a, d, w, nosuggest) ==
    LET ct       == cap_guess(w)
        variants == cap_variants(w)
    IN  Flatten([k \in 1..Len(variants) |->
            word_forms(a, d, variants[k], ct, None, nosuggest)
            \o compound_parts(a, d, variants[k], nosuggest)])

\* analyze with capitalization=False calls analyze_internal(word) without its captype
analyze_raises(cap) == ~cap

is_found(a, d, variant, nosuggest) == Len(analyze(a, d, variant, nosuggest)) > 0

\* every break pattern compiled as '(pat)', anchored or not
breakpattern_undotted(pat) ==
    LET at_start == pat # <<>> /\ Head(pat) = "^"
        at_end   == pat # <<>> /\ pat[Len(pat)] = "$"
    IN  [dots  |-> FALSE,
         start |-> at_start,
         end   |-> at_end,
         lit   |-> Slice(pat, IF at_start THEN 1 ELSE 0, IF at_end THEN Len(pat) - 1 ELSE Len(pat))]

\* self.breakpatterns: '(pat)' when anchored, '.(pat).' otherwise
breakpattern(pat) ==
    LET at_start == pat # <<>> /\ Head(pat) = "^"
        at_end   == pat # <<>> /\ pat[Len(pat)] = "$"
    IN  [dots  |-> ~(at_start \/ at_end),
         start |-> at_start,
         end   |-> at_end,
         lit   |-> Slice(pat, IF at_start THEN 1 ELSE 0, IF at_end THEN Len(pat) - 1 ELSE Len(pat))]

\* whether the pattern matches with its whole match starting at 0-based position i
matches_at(bp, text, i) ==
    LET g == IF bp.dots THEN i + 1 ELSE i
    IN  /\ StartsWith(Slice(text, g, Len(text)), bp.lit)
        /\ (bp.dots => g + Len(bp.lit) + 1 <= Len(text))
        /\ (bp.start => i = 0)
        /\ (bp.end => g + Len(bp.lit) = Len(text))

\* re.finditer: leftmost matches that do not overlap, as the spans of group 1
RECURSIVE finditer(_, _, _)
finditer(bp, text, from) ==
    LET found == {i \in from..(Len(text) - 1) : matches_at(bp, text, i)}
    IN  IF found = {} THEN <<>>
        ELSE LET i == CHOOSE x \in found : \A y \in found : x <= y
                 g == IF bp.dots THEN i + 1 ELSE i
                 e == g + Len(bp.lit)
             IN  <<[start |-> g, end |-> e]>>
                 \o finditer(bp, text, IF bp.dots THEN e + 1 ELSE e)

RECURSIVE try_break(_, _, _)
try_break(a, text, depth) ==
    IF depth > MaxBreakDepth THEN <<>>
    ELSE LET Broken(m) ==
                 LET breakings == try_break(a, Slice(text, m.end, Len(text)), depth + 1)
                 IN  [k \in 1..Len(breakings) |-> <<FirstN(text, m.start)>> \o breakings[k]]
             ByPattern(pat) ==
                 LET ms == finditer(breakpattern(pat), text, 0)
                 IN  Flatten([k \in 1..Len(ms) |-> Broken(ms[k])])
         IN  <<<<text>>>> \o Flatten([p \in 1..Len(a.BREAK) |-> ByPattern(a.BREAK[p])])

\* lookup: "True", "False", or the exception that leaves it
lookup(a, d, w, cap, nosuggest) ==
    IF forbidden_shortcut(a, d, w) THEN "False"
    ELSE IF analyze_raises(cap) THEN "TypeError"
    ELSE LET converted == apply_iconv(a, w)
             breaks    == try_break(a, converted, 0)
         IN  IF is_found(a, d, converted, nosuggest) THEN "True"
             ELSE IF \E k \in 1..Len(breaks) :
                        \A j \in 1..Len(breaks[k]) :
                            breaks[k][j] # <<>> => is_found(a, d, breaks[k][j], nosuggest)
                  THEN "True"
             ELSE "False"

\* ------------------------------------------------------------------------
\* Fixtures: the Aff/Dic pairs an Analyzer is built from, each with the
\* alphabet its input words are drawn over and the longer words of its scenario
\* ------------------------------------------------------------------------

Fixture(a, d, alphabet, words) == [aff |-> a, dic |-> d, alphabet |-> alphabet, words |-> words]

\* suffixes with strip and condition, a cross-product prefix, FORBIDDENWORD, NEEDAFFIX
FxAffix ==
    Fixture([DefaultAff EXCEPT
                !.FORBIDDENWORD = "!", !.NEEDAFFIX = "N",
                !.SFX = <<Affix("A", <<>>, <<"s">>, <<AnyChar>>, TRUE, {}),
                          Affix("B", <<"a">>, <<"s">>, <<Class({"b"}), Class({"a"})>>, FALSE, {})>>,
                !.PFX = <<Affix("P", <<>>, <<"b">>, <<AnyChar>>, TRUE, {})>>],
            <<DicWord(<<"a">>, {"A", "P"}), DicWord(<<"a", "s">>, {"!"}),
              DicWord(<<"b", "a">>, {"A", "B"}), DicWord(<<"b", "b">>, {"N", "A"})>>,
            {"a", "b", "s"}, {})

\* ICONV with FORBIDDENWORD
FxIconv ==
    Fixture([DefaultAff EXCEPT
                !.FORBIDDENWORD = "!",
                !.ICONV = <<<< <<"b">>, <<"a">> >>, << <<"c">>, <<"b", "b">> >> >>],
            <<DicWord(<<"a">>, {}), DicWord(<<"b">>, {"!"}), DicWord(<<"a", "a">>, {}),
              DicWord(<<"c", "a">>, {})>>,
            {"a", "b", "c"}, {})

\* capitalization: KEEPCASE, NOSUGGEST, FORBIDDENWORD on cased and lowercase stems
FxCase ==
    Fixture([DefaultAff EXCEPT
                !.FORBIDDENWORD = "!", !.KEEPCASE = "K", !.NOSUGGEST = "S"],
            <<DicWord(<<"A", "b">>, {"!"}), DicWord(<<"a", "b">>, {}),
              DicWord(<<"a", "a">>, {"!"}), DicWord(<<"a">>, {"K"}),
              DicWord(<<"b">>, {"S"}), DicWord(<<"b", "a">>, {"!"}),
              DicWord(<<"b", "a">>, {"!", "S"})>>,
            {"a", "b", "A"}, {})

\* COMPOUNDFLAG with CHECKCOMPOUNDTRIPLE only
FxTriple ==
    Fixture([DefaultAff EXCEPT
                !.COMPOUNDFLAG = "Z", !.COMPOUNDMIN = 1, !.CHECKCOMPOUNDTRIPLE = TRUE],
            <<DicWord(<<"b">>, {"Z"}), DicWord(<<"a", "a">>, {"Z"}), DicWord(<<"c">>, {"Z"})>>,
            {"a", "b", "c"}, {})

\* positional compound flags, ONLYINCOMPOUND, COMPOUNDWORDSMAX
FxWordsMax ==
    Fixture([DefaultAff EXCEPT
                !.COMPOUNDBEGIN = "B", !.COMPOUNDMIDDLE = "M", !.COMPOUNDLAST = "L",
                !.ONLYINCOMPOUND = "O", !.COMPOUNDMIN = 1, !.COMPOUNDWORDSMAX = 2],
            <<DicWord(<<"a">>, {"B", "M", "O"}), DicWord(<<"b">>, {"M", "L"}),
              DicWord(<<"a", "b">>, {"O"})>>,
            {"a", "b"}, {})

\* affixed compound parts: COMPOUNDPERMITFLAG, cross product, two suffix levels
FxPermit ==
    Fixture([DefaultAff EXCEPT
                !.COMPOUNDFLAG = "Z", !.COMPOUNDPERMITFLAG = "T", !.COMPOUNDMIN = 1,
                !.PFX = <<Affix("P", <<>>, <<"s">>, <<AnyChar>>, TRUE, {})>>,
                !.SFX = <<Affix("A", <<>>, <<"s">>, <<AnyChar>>, TRUE, {"T", "C"}),
                          Affix("C", <<>>, <<"b">>, <<AnyChar>>, TRUE, {"T"})>>],
            <<DicWord(<<"a">>, {"Z", "A", "P"}), DicWord(<<"b">>, {"Z"})>>,
            {"a", "b", "s"}, {})

\* the other compound checks: COMPOUNDFORBIDFLAG, CHECKCOMPOUNDREP, CHECKCOMPOUNDPATTERN
FxChecks ==
    Fixture([DefaultAff EXCEPT
                !.COMPOUNDFLAG = "Z", !.COMPOUNDFORBIDFLAG = "F", !.COMPOUNDMIN = 2,
                !.CHECKCOMPOUNDREP = TRUE, !.REP = <<<< <<"b", "b">>, <<"b">> >>>>,
                !.CHECKCOMPOUNDCASE = TRUE,
                !.CHECKCOMPOUNDPATTERN = <<[left |-> <<"a", "/", "Z">>, right |-> <<"a", "a">>]>>],
            <<DicWord(<<"a", "b">>, {"Z"}), DicWord(<<"b", "a">>, {"Z"}),
              DicWord(<<"a", "a">>, {"Z", "F"}), DicWord(<<"a", "b", "a">>, {})>>,
            {"a", "b"}, {})

\* COMPOUNDRULE A*B with COMPOUNDMIN left at its default
FxRuleDefaultMin ==
    Fixture([DefaultAff EXCEPT !.COMPOUNDRULE = << <<"A", "*", "B">> >>],
            <<DicWord(<<"x">>, {"A"}), DicWord(<<"y">>, {"A"}), DicWord(<<"z">>, {"B"})>>,
            {"x", "y", "z"}, {})

\* COMPOUNDRULE A*B with COMPOUNDMIN 1
FxRuleMin1 ==
    Fixture([DefaultAff EXCEPT !.COMPOUNDRULE = << <<"A", "*", "B">> >>, !.COMPOUNDMIN = 1],
            <<DicWord(<<"x">>, {"A"}), DicWord(<<"y">>, {"A"}), DicWord(<<"z">>, {"B"})>>,
            {"x", "y", "z"}, {})

\* two rules with an optional part, stems of two lengths, COMPOUNDWORDSMAX
FxRules ==
    Fixture([DefaultAff EXCEPT
                !.COMPOUNDRULE = << <<"A", "B", "?", "C">>, <<"C", "C", "*">> >>,
                !.COMPOUNDMIN = 1, !.COMPOUNDWORDSMAX = 3],
            <<DicWord(<<"a">>, {"A"}), DicWord(<<"b">>, {"B", "C"}), DicWord(<<"a", "b">>, {"C"}),
              DicWord(<<"c">>, {"C"})>>,
            {"a", "b", "c"}, {})

\* BREAK - with the stems foo and bar
FxBreakScenario ==
    Fixture([DefaultAff EXCEPT !.BREAK = << <<"-">> >>],
            <<DicWord(<<"f", "o", "o">>, {}), DicWord(<<"b", "a", "r">>, {})>>,
            {},
            {<<"f", "o", "o", "-", "b", "a", "r">>, <<"f", "o", "o", "-", "-", "b", "a", "r">>,
             <<"f", "o", "o", "-", "b", "a", "z">>, <<"f", "o", "o">>, <<"b", "a", "r">>,
             <<"b", "a", "z">>, <<"-", "b", "a", "r">>, <<"f", "o", "o", "-">>})

\* the three default break patterns over one-letter stems
FxBreak ==
    Fixture([DefaultAff EXCEPT !.BREAK = << <<"-">>, <<"^", "-">>, <<"-", "$">> >>],
            <<DicWord(<<"a">>, {}), DicWord(<<"b">>, {}), DicWord(<<"a", "-", "b">>, {})>>,
            {"a", "b", "-"}, {})

Fixtures ==
    [affix |-> FxAffix, iconv |-> FxIconv, case |-> FxCase, triple |-> FxTriple,
     wordsmax |-> FxWordsMax, permit |-> FxPermit, checks |-> FxChecks,
     rule_default_min |-> FxRuleDefaultMin, rule_min1 |-> FxRuleMin1, rules |-> FxRules,
     break_scenario |-> FxBreakScenario, break |-> FxBreak]

\* the words a caller may pass to an Analyzer built from fixture f
Words(f) ==
    UNION {[1..n -> Fixtures[f].alphabet] : n \in 1..MaxWordLen} \cup Fixtures[f].words

\* ------------------------------------------------------------------------
\* The state machine: an Analyzer is constructed once; each call is a pure
\* traversal of its immutable aff and dic
\* ------------------------------------------------------------------------

Init ==
    /\ fx \in DOMAIN Fixtures
    /\ aff = Fixtures[fx].aff
    /\ dic = Fixtures[fx].dic
    /\ pc = "idle"
    /\ word = <<>>
    /\ capitalization = TRUE
    /\ allow_nosuggest = TRUE
    /\ captype = Cap.NO
    /\ compoundpos = None
    /\ result = None
    /\ forms = <<>>
    /\ candidates = <<>>
    /\ compounds = <<>>

\* Analyzer.lookup(word, capitalization=, allow_nosuggest=)
Lookup ==
    /\ pc = "idle"
    /\ \E w \in Words(fx), c \in BOOLEAN, n \in BOOLEAN :
           /\ word' = w
           /\ capitalization' = c
           /\ allow_nosuggest' = n
           /\ result' = lookup(aff, dic, w, c, n)
    /\ pc' = "lookup"
    /\ UNCHANGED <<fx, aff, dic, captype, compoundpos, forms, candidates, compounds>>

\* Analyzer.word_forms(word, captype, compoundpos)
WordForms ==
    /\ pc = "idle"
    /\ \E w \in Words(fx), cpos \in {None, CompoundPos.BEGIN, CompoundPos.MIDDLE, CompoundPos.END} :
           \E ct \in {Cap.NO, cap_guess(w)} :
               /\ word' = w
               /\ compoundpos' = cpos
               /\ captype' = ct
               /\ forms' = word_forms(aff, dic, w, ct, cpos, TRUE)
    /\ pc' = "word_forms"
    /\ UNCHANGED <<fx, aff, dic, capitalization, allow_nosuggest, result, candidates, compounds>>

\* Analyzer.compound_parts(word)
CompoundParts ==
    /\ pc = "idle"
    /\ \E w \in Words(fx) :
           /\ word' = w
           /\ candidates' = compound_candidates(aff, dic, w, TRUE)
           /\ compounds' = compound_parts(aff, dic, w, TRUE)
    /\ pc' = "compound_parts"
    /\ UNCHANGED <<fx, aff, dic, capitalization, allow_nosuggest, captype, compoundpos,
                   result, forms>>

\* the call returns; nothing of it outlives it
Return ==
    /\ pc # "idle"
    /\ pc' = "idle"
    /\ word' = <<>>
    /\ capitalization' = TRUE
    /\ allow_nosuggest' = TRUE
    /\ captype' = Cap.NO
    /\ compoundpos' = None
    /\ result' = None
    /\ forms' = <<>>
    /\ candidates' = <<>>
    /\ compounds' = <<>>
    /\ UNCHANGED <<fx, aff, dic>>

Next == Lookup \/ WordForms \/ CompoundParts \/ Return

Spec == Init /\ [][Next]_vars

\* ------------------------------------------------------------------------
\* Properties
\* ------------------------------------------------------------------------

Str_foo_bar == <<"f", "o", "o", "-", "b", "a", "r">>

Str_foo__bar == <<"f", "o", "o", "-", "-", "b", "a", "r">>

Str_foo_baz == <<"f", "o", "o", "-", "b", "a", "z">>

DefaultCall == pc = "lookup" /\ capitalization /\ allow_nosuggest

\* the texts of a compound, concatenated
CompoundText(c) == Flatten([i \in 1..Len(c) |-> c[i].text])

\* C1: lookup never fails exceptionally: whatever the word, the Aff/Dic and the
\* two options (capitalization=False included), a call returns True or False.
C1_LookupNeverFails ==
    pc = "lookup" => result \in {"True", "False"}

\* C2: ICONV dominance: lookup(w) equals lookup(apply_iconv(w)), also when
\* FORBIDDENWORD is defined and w, but not its converted form, is a stem.
C2_IconvDominance ==
    (pc = "lookup" /\ capitalization)
        => result = lookup(aff, dic, apply_iconv(aff, word), capitalization, allow_nosuggest)

EveryHomonymForbidden(w) ==
    /\ aff.FORBIDDENWORD # None
    /\ \E k \in 1..Len(dic) : dic[k].stem = w
    /\ \A k \in 1..Len(dic) : dic[k].stem = w => aff.FORBIDDENWORD \in dic[k].flags

\* C3: forbidden trumps all: when FORBIDDENWORD is defined and w has case-exact
\* homonyms that all carry it, lookup(w) is False whatever parse would accept w.
C3_ForbiddenTrumpsAll ==
    (pc = "lookup" /\ EveryHomonymForbidden(word)) => result = "False"

\* C3 witness: a forbidden word that an affix, compound or capitalization-variant
\* parse accepts has been looked up with the default options.
C3_Witness ==
    /\ DefaultCall
    /\ EveryHomonymForbidden(word)
    /\ is_found(aff, dic, apply_iconv(aff, word), allow_nosuggest)
    /\ \E k \in 1..Len(cap_variants(word)) :
           \E j \in 1..Len(dic) : /\ dic[j].stem = cap_variants(word)[k]
                                  /\ aff.FORBIDDENWORD \notin dic[j].flags
    /\ result = "False"

\* C4: compound completeness: the texts of every compound compound_parts yields
\* concatenate to the word, cross-product and two-level parts included.
C4_CompoundCompleteness ==
    pc = "compound_parts" => \A k \in 1..Len(compounds) : CompoundText(compounds[k]) = word

\* C5 as first stated: a dictionary stem is accepted unless its entry carries
\* FORBIDDENWORD, or ONLYINCOMPOUND without a compound parse; no other flag of
\* the entry makes lookup(s) False.
C5_RoundTripAnyOtherFlag ==
    DefaultCall =>
        \A k \in 1..Len(dic) :
            dic[k].stem = word =>
                \/ aff.FORBIDDENWORD \in dic[k].flags
                \/ (aff.ONLYINCOMPOUND \in dic[k].flags /\ compound_parts(aff, dic, word, TRUE) = <<>>)
                \/ result = "True"

RoundTripEntry(e) ==
    /\ e.stem = word
    /\ apply_iconv(aff, word) = word
    /\ aff.FORBIDDENWORD \notin e.flags
    /\ aff.NEEDAFFIX \notin e.flags
    /\ (aff.ONLYINCOMPOUND \in e.flags => compound_parts(aff, dic, word, TRUE) # <<>>)

\* C5: dictionary round-trip: for an entry (s, F) whose stem ICONV leaves
\* unchanged, lookup(s) with the default options is True unless F holds
\* FORBIDDENWORD or NEEDAFFIX, or ONLYINCOMPOUND while s has no compound parse;
\* KEEPCASE and NOSUGGEST do not make it False.
C5_DictionaryRoundTrip ==
    DefaultCall => \A k \in 1..Len(dic) : RoundTripEntry(dic[k]) => result = "True"

\* C5 witness: the stem of an entry carrying KEEPCASE or NOSUGGEST, and the stem
\* of an ONLYINCOMPOUND entry with a compound parse, have been looked up.
C5_Witness ==
    /\ DefaultCall
    /\ result = "True"
    /\ \E k \in 1..Len(dic) :
           /\ RoundTripEntry(dic[k])
           /\ \/ aff.KEEPCASE \in dic[k].flags
              \/ aff.NOSUGGEST \in dic[k].flags
              \/ aff.ONLYINCOMPOUND \in dic[k].flags

\* the occurrences of the break patterns in a text, as the spans they cut out
BreakOccurrences(text) ==
    UNION {{<<g, g + Len(breakpattern(aff.BREAK[p]).lit)>> :
               g \in {x \in 0..Len(text) :
                        IF breakpattern(aff.BREAK[p]).dots
                        THEN x >= 1 /\ matches_at(breakpattern(aff.BREAK[p]), text, x - 1)
                        ELSE matches_at(breakpattern(aff.BREAK[p]), text, x)}} :
           p \in 1..Len(aff.BREAK)}

\* the sets of occurrences that can be cut together
BreakSequences(text) ==
    {S \in SUBSET BreakOccurrences(text) :
        /\ S # {}
        /\ \A o1 \in S, o2 \in S : o1 = o2 \/ o1[2] <= o2[1] \/ o2[2] <= o1[1]}

RECURSIVE PartsBetween(_, _, _)
PartsBetween(text, S, from) ==
    IF S = {} THEN <<Slice(text, from, Len(text))>>
    ELSE LET o == CHOOSE x \in S : \A y \in S : x[1] <= y[1]
         IN  <<Slice(text, from, o[1])>> \o PartsBetween(text, S \ {o}, o[2])

\* C6 as first stated: with BREAK - and the stems foo and bar, lookup is True
\* for foo-bar and foo--bar and False for foo-baz; in general a word is accepted
\* when some sequence of break-pattern occurrences splits it into parts whose
\* non-empty members are each accepted.
C6_AnyOccurrenceSequence ==
    (pc = "lookup" /\ capitalization) =>
        /\ (aff = FxBreakScenario.aff /\ dic = FxBreakScenario.dic) =>
               /\ word = Str_foo_bar => result = "True"
               /\ word = Str_foo__bar => result = "True"
               /\ word = Str_foo_baz => result = "False"
        /\ (~EveryHomonymForbidden(word) /\ aff.ICONV = <<>>) =>
               \A S \in BreakSequences(word) :
                   (\A k \in 1..Len(PartsBetween(word, S, 0)) :
                        PartsBetween(word, S, 0)[k] # <<>>
                            => is_found(aff, dic, PartsBetween(word, S, 0)[k], allow_nosuggest))
                   => result = "True"

\* where break pattern p occurs in a text (an unanchored pattern with a character
\* on each side), as the 0-based starts of the pattern itself
OccurrencesOf(p, text) ==
    {x \in 0..Len(text) :
        IF breakpattern(aff.BREAK[p]).dots
        THEN x >= 1 /\ matches_at(breakpattern(aff.BREAK[p]), text, x - 1)
        ELSE matches_at(breakpattern(aff.BREAK[p]), text, x)}

\* the splittings that cut, each time, at the first occurrence of some break
\* pattern in the text that remains
RECURSIVE FirstCutSplittings(_)
FirstCutSplittings(text) ==
    {<<text>>}
    \cup UNION {LET g == CHOOSE x \in OccurrencesOf(p, text) :
                             \A y \in OccurrencesOf(p, text) : x <= y
                    e == g + Len(breakpattern(aff.BREAK[p]).lit)
                IN  {<<Slice(text, 0, g)>> \o rest :
                        rest \in FirstCutSplittings(Slice(text, e, Len(text)))} :
                p \in {q \in 1..Len(aff.BREAK) : OccurrencesOf(q, text) # {}}}

\* C6: break patterns: with BREAK - and the stems foo and bar, lookup is True
\* for foo-bar and False for foo--bar and foo-baz; in general a word is accepted
\* when it splits into parts whose non-empty members are each accepted by
\* cutting, each time, at the first occurrence of a break pattern in the text
\* that remains after the previous cut.
C6_BreakPattern ==
    (pc = "lookup" /\ capitalization) =>
        /\ (aff = FxBreakScenario.aff /\ dic = FxBreakScenario.dic) =>
               /\ word = Str_foo_bar => result = "True"
               /\ word = Str_foo__bar => result = "False"
               /\ word = Str_foo_baz => result = "False"
        /\ ~EveryHomonymForbidden(word) =>
               \A parts \in FirstCutSplittings(apply_iconv(aff, word)) :
                   (\A k \in 1..Len(parts) :
                        parts[k] # <<>> => is_found(aff, dic, parts[k], allow_nosuggest))
                   => result = "True"

\* C6 witness: a word that is not found whole but whose parts around a break
\* pattern are, here foo-bar, has been looked up and accepted.
C6_Witness ==
    /\ pc = "lookup" /\ capitalization
    /\ aff = FxBreakScenario.aff /\ dic = FxBreakScenario.dic
    /\ word = Str_foo_bar
    /\ ~is_found(aff, dic, word, allow_nosuggest)
    /\ result = "True"

RuleScenario(a) ==
    (pc = "lookup" /\ capitalization /\ aff = a /\ dic = FxRuleMin1.dic) =>
        /\ word = <<"x", "y", "z">> => result = "True"
        /\ word = <<"x", "z">> => result = "True"
        /\ word = <<"z", "x", "y">> => result = "False"

\* C7 as first stated: with only COMPOUNDRULE A*B declared, COMPOUNDMIN at its
\* default of 3, and x/A, y/A, z/B: xyz and xz are accepted, zxy is not.
C7_RuleScenarioDefaultMin == RuleScenario(FxRuleDefaultMin.aff)

\* the ways to cut w into two or more pieces, as sets of cut positions
Segmentations(w) == SUBSET (1..(Len(w) - 1)) \ {{}}

RECURSIVE Pieces(_, _, _)
Pieces(w, cuts, from) ==
    IF cuts = {} THEN <<Slice(w, from, Len(w))>>
    ELSE LET c == CHOOSE x \in cuts : \A y \in cuts : x <= y
         IN  <<Slice(w, from, c)>> \o Pieces(w, cuts \ {c}, c)

\* the pieces are stems, long enough and few enough, and some choice of their
\* entries has a flag sequence that a declared rule matches in full
RuleSegmentation(pieces) ==
    /\ \A i \in 1..Len(pieces) : Len(pieces[i]) >= aff.COMPOUNDMIN
    /\ (aff.COMPOUNDWORDSMAX # 0 => Len(pieces) <= aff.COMPOUNDWORDSMAX)
    /\ \E hs \in [1..Len(pieces) -> 1..Len(dic)] :
           /\ \A i \in 1..Len(pieces) : dic[hs[i]].stem = pieces[i]
           /\ \E r \in 1..Len(aff.COMPOUNDRULE) :
                  CompoundRule_fullmatch(aff.COMPOUNDRULE[r],
                                         [i \in 1..Len(pieces) |-> dic[hs[i]].flags])

\* C7: compound rules: with only COMPOUNDRULE A*B declared, COMPOUNDMIN set to
\* 1, and x/A, y/A, z/B: xyz and xz are accepted, zxy is not; in general
\* compound_parts_by_rules yields every segmentation of a word into two or more
\* stems of at least COMPOUNDMIN characters (at most COMPOUNDWORDSMAX of them
\* when that is set) whose flag sequence fully matches a declared rule.
C7_CompoundRule ==
    /\ RuleScenario(FxRuleMin1.aff)
    /\ (pc = "compound_parts" /\ aff.COMPOUNDRULE # <<>>) =>
           \A cuts \in Segmentations(word) :
               RuleSegmentation(Pieces(word, cuts, 0)) =>
                   \E k \in 1..Len(candidates) :
                       candidates[k] = [i \in 1..Len(Pieces(word, cuts, 0)) |->
                                           WordForm(Pieces(word, cuts, 0)[i], Pieces(word, cuts, 0)[i])]

\* C7 witness: xyz has been looked up under COMPOUNDRULE A*B with COMPOUNDMIN 1
\* and accepted.
C7_Witness ==
    /\ pc = "lookup" /\ capitalization
    /\ aff = FxRuleMin1.aff /\ dic = FxRuleMin1.dic
    /\ word = <<"x", "y", "z">>
    /\ result = "True"

OnlyTripleCheck ==
    /\ aff.CHECKCOMPOUNDTRIPLE
    /\ ~aff.CHECKCOMPOUNDREP /\ ~aff.CHECKCOMPOUNDCASE
    /\ aff.CHECKCOMPOUNDPATTERN = <<>> /\ aff.COMPOUNDFORBIDFLAG = None

\* C8: bad_compound pairs a part only with a later part: with only
\* CHECKCOMPOUNDTRIPLE enabled a compound is rejected only if for some left part
\* strictly before some right part the window left[-2:]+right[:1] or
\* left[-1:]+right[:2] is one repeated character.
C8_PairsOnlyWithLaterParts ==
    (pc = "compound_parts" /\ OnlyTripleCheck) =>
        \A k \in 1..Len(candidates) :
            bad_compound(aff, dic, candidates[k]) =>
                \E i \in 1..Len(candidates[k]), j \in 1..Len(candidates[k]) :
                    i < j /\ triple_at_seam(candidates[k][i].text, candidates[k][j].text)

\* C9: compound size bounds: every compound of compound_parts_by_flags and
\* compound_parts_by_rules has at least 2 parts, each of at least COMPOUNDMIN
\* characters, and at most COMPOUNDWORDSMAX parts when that is set.
C9_CompoundSizeBounds ==
    pc = "compound_parts" =>
        \A k \in 1..Len(candidates) :
            /\ Len(candidates[k]) >= 2
            /\ \A i \in 1..Len(candidates[k]) : Len(candidates[k][i].text) >= aff.COMPOUNDMIN
            /\ (aff.COMPOUNDWORDSMAX # 0 => Len(candidates[k]) <= aff.COMPOUNDWORDSMAX)

\* the positions, among the candidate forms of the call, of the forms at which a
\* forbidden homonym is discovered
ForbiddenAt(cands) ==
    {k \in 1..Len(cands) :
        /\ (compoundpos # None \/ cands[k].prefix # 0 \/ cands[k].suffix # 0)
        /\ \E j \in 1..Len(dic) : /\ dic[j].stem = cands[k].stem
                                  /\ aff.FORBIDDENWORD \in dic[j].flags}

\* the number of candidate forms before the first such form
BeforeForbidden(cands) ==
    IF ForbiddenAt(cands) = {} THEN Len(cands)
    ELSE (CHOOSE k \in ForbiddenAt(cands) : \A j \in ForbiddenAt(cands) : k <= j) - 1

\* C10: FORBIDDENWORD abort: word_forms yields exactly what the candidate forms
\* before the first form with a forbidden stem (non-base, or any form at a
\* compound position) yield; that form and every later one yield nothing.
C10_ForbiddenAbort ==
    pc = "word_forms" =>
        forms = Flatten([k \in 1..BeforeForbidden(try_affix_forms(aff, word, compoundpos)) |->
                            form_yields(aff, dic, try_affix_forms(aff, word, compoundpos)[k],
                                        captype, compoundpos, TRUE)])

\* C10 witness: a call in which an earlier form was yielded, a forbidden stem was
\* then reached, and a later form would have been yielded.
C10_Witness ==
    /\ pc = "word_forms"
    /\ forms # <<>>
    /\ ForbiddenAt(try_affix_forms(aff, word, compoundpos)) # {}
    /\ \E k \in 1..Len(try_affix_forms(aff, word, compoundpos)) :
           /\ k > BeforeForbidden(try_affix_forms(aff, word, compoundpos)) + 1
           /\ form_yields(aff, dic, try_affix_forms(aff, word, compoundpos)[k],
                          captype, compoundpos, TRUE) # <<>>

\* an Aff that declares FORBIDDENWORD and no affixes, compounding, break patterns
\* or input conversion
OnlyForbiddenword ==
    /\ aff.FORBIDDENWORD # None
    /\ aff.ICONV = <<>>
    /\ aff.SFX = <<>> /\ aff.PFX = <<>>
    /\ aff.COMPOUNDFLAG = None /\ aff.COMPOUNDBEGIN = None
    /\ aff.COMPOUNDMIDDLE = None /\ aff.COMPOUNDLAST = None
    /\ aff.COMPOUNDRULE = <<>>
    /\ aff.BREAK = <<>>

\* the dictionary entries whose stem is the word or one of its capitalization variants
VariantEntries ==
    {k \in 1..Len(dic) : dic[k].stem \in Range(cap_variants(word))}

\* C11: a FORBIDDENWORD entry never by itself makes lookup accept a word: with
\* FORBIDDENWORD defined, no affixes, compounding or break patterns and the
\* default options, if every entry whose stem is w or a capitalization variant
\* of w (the lowercased form of an initial-capital w, say) carries
\* FORBIDDENWORD, then lookup(w) is False.  Stated for the words that have such
\* an entry, under an Aff without ICONV.
C11_ForbiddenEntryNeverAccepts ==
    (DefaultCall /\ OnlyForbiddenword /\ VariantEntries # {}) =>
        ((\A k \in VariantEntries : aff.FORBIDDENWORD \in dic[k].flags) => result = "False")

====
